---------------------------- MODULE Spec2Model ----------------------------
(***************************************************************************)
(* wb2k: a bot that welcomes users joining one Slack channel.              *)
(*                                                                         *)
(* src/wb2k/__main__.py    the listening program (connect, resolve the     *)
(*                         channel, read loop, reconnect with a retry      *)
(*                         ceiling)                                        *)
(* src/wb2k/sendMessage.py the one-shot program (connect, resolve the      *)
(*                         channel, send one message, exit)                *)
(*                                                                         *)
(* The Slack client (rtm_connect, rtm_read, rtm_send_message, api_call) is *)
(* the environment: the outcome of every call to it is drawn with \E.      *)
(***************************************************************************)
EXTENDS Integers, Sequences, FiniteSets, TLC

(***************************************************************************)
(* Bounds of the model.                                                    *)
(***************************************************************************)
\* the --retries option ranges over 0..MaxRetries
MaxRetries == 2
\* rtm_read() returns at most MaxBatch events
MaxBatch == 2
\* a listing returned by api_call holds at most MaxListLen entries
MaxListLen == 2
\* retry_count grows with every reconnect of a flapping connection; the
\* model stops reconnecting successfully once it has reached MaxCount
MaxCount == 3

(***************************************************************************)
(* Values.                                                                 *)
(***************************************************************************)
\* Python's None, as returned by dict.get for a missing key
None == "None"

ChannelNames == {"general", "random"}
ChannelIds == {"C123", "C999"}

\* one entry of a channels.list / groups.list answer
Entries == [id : ChannelIds, name : ChannelNames]

RECURSIVE SeqsUpTo(_, _)
SeqsUpTo(S, n) ==
    IF n = 0 THEN {<<>>}
    ELSE LET shorter == SeqsUpTo(S, n - 1)
         IN  shorter \cup {Append(s, x) : s \in shorter, x \in S}

\* the value of .get('channels') / .get('groups'): None when the key is
\* missing from the answer (is_none), a list of entries otherwise
Listings ==
    {[is_none |-> TRUE, items |-> <<>>]}
    \cup {[is_none |-> FALSE, items |-> s] : s \in SeqsUpTo(Entries, MaxListLen)}

\* the value of message.get('user_profile'): None, or a dict whose 'name'
\* is missing (None) or present
Profiles ==
    {[is_none |-> TRUE, name |-> None],
     [is_none |-> FALSE, name |-> None],
     [is_none |-> FALSE, name |-> "Ada"]}

\* an inbound event, as seen through message.get(...)
Events ==
    [subtype : {None, "message", "channel_join", "group_join"},
     user : {None, "U1"},
     channel : {None} \cup ChannelIds,
     user_profile : Profiles]

NoMessage ==
    [subtype |-> None, user |-> None, channel |-> None,
     user_profile |-> [is_none |-> TRUE, name |-> None]]

NoListing == [is_none |-> TRUE, items |-> <<>>]

VARIABLES
    mode,            \* "listen" (__main__.py) or "oneshot" (sendMessage.py)
    channel,         \* --channel: the channel name
    retries,         \* --retries: the retry ceiling
    announce,        \* --announce
    oneshot_message, \* --message of sendMessage.py ("" when not given)
    pc,              \* where the process is
    exit_msg,        \* why the process ended ("" while it runs)
    connected,       \* the session is live (the client's state)
    channel_id,      \* the resolved channel id (None before resolution)
    retry_count,     \* retry_count of cli
    batchLen,        \* length of the list the last rtm_read() returned
    idx,             \* number of events of that list the for loop has bound
    message,         \* the for loop's variable
    result,          \* what handle_message did with message
    loggerLevel,     \* the level set on the logger ("NOTSET" until setLevel)
    startupSends,    \* send calls made before the read loop is entered
    startupText,     \* text of the send call made before the read loop
    sendsAt,         \* send calls made for each position of the current batch
    passSendFailed,  \* a send failed during the current pass
    rcAtLoss,        \* retry_count when the loss being recovered from was detected
    failedSinceLoss, \* failed reconnect attempts since that loss
    okSinceLoss,     \* successful reconnect attempts since that loss
    backoff,         \* backoff of cli, in sixteenths of a second (0: not set)
    backoffSleeps,   \* backoff sleeps (line 149) made since that loss
    lastBackoff,     \* duration of the last of them, in sixteenths of a second
    failedSincePass, \* failed reconnect attempts since the last completed pass
    okSincePass,     \* successful reconnect attempts since the last completed pass
    channels_list,   \* find_channel_id's local (resolver specification)
    groups_list      \* find_channel_id's local (resolver specification)

config == <<mode, channel, retries, announce, oneshot_message>>
passVars == <<batchLen, idx, message, result, sendsAt, passSendFailed>>
lossVars == <<rcAtLoss, failedSinceLoss, okSinceLoss>>
backoffVars == <<backoff, backoffSleeps, lastBackoff>>
budgetVars == <<failedSincePass, okSincePass>>
listVars == <<channels_list, groups_list>>

vars == <<mode, channel, retries, announce, oneshot_message, pc, exit_msg,
          connected, channel_id, retry_count, batchLen, idx, message, result,
          loggerLevel, startupSends, startupText, sendsAt, passSendFailed,
          rcAtLoss, failedSinceLoss, okSinceLoss, backoff, backoffSleeps,
          lastBackoff, failedSincePass, okSincePass,
          channels_list, groups_list>>


(***************************************************************************)
(* find_channel_id (the same function in both programs).                   *)
(***************************************************************************)
\* `not x` of a list-or-None value
Falsy(l) == l.is_none \/ l.items = <<>>

\* channels_list + groups_list
Concat_Swapped(cl, gl) == gl.items \o cl.items

Concat(cl, gl) == cl.items \o gl.items

\* [c['id'] for c in ... if c['name'] == channel]
RECURSIVE MatchingIds(_, _)
MatchingIds(items, name) ==
    IF items = <<>> THEN <<>>
    ELSE (IF Head(items).name = name THEN <<Head(items).id>> ELSE <<>>)
         \o MatchingIds(Tail(items), name)

\* the outcome of find_channel_id(channel, sc) for the two api_call answers:
\* "return" with the id, a sys.exit ("EnumerationError", "ChannelNotFoundError")
\* or the TypeError of None + list / list + None
FindChannelId(name, cl, gl) ==
    IF Falsy(cl) /\ Falsy(gl)
    THEN [outcome |-> "EnumerationError", id |-> None]
    ELSE IF cl.is_none \/ gl.is_none
    THEN [outcome |-> "TypeError", id |-> None]
    ELSE LET channel_ids == MatchingIds(Concat(cl, gl), name)
         IN  IF channel_ids = <<>>
             THEN [outcome |-> "ChannelNotFoundError", id |-> None]
             ELSE [outcome |-> "return", id |-> channel_ids[1]]

ResolveExitMsg(outcome) ==
    CASE outcome = "EnumerationError" -> "Couldn't enumerate channels/groups"
      [] outcome = "ChannelNotFoundError" -> "Couldn't find channel"
      [] outcome = "TypeError" -> "TypeError"
      [] OTHER -> ""

\* where the process goes after find_channel_id
AfterResolve(outcome) ==
    CASE outcome = "return" -> IF mode = "listen" THEN "announce" ELSE "send_once"
      [] outcome = "TypeError" -> "crashed"
      [] OTHER -> "fatal"

(***************************************************************************)
(* handle_message.                                                         *)
(***************************************************************************)
JoinSubtypes == {"group_join", "channel_join"}

\* what handle_message does with one event, given whether rtm_send_message
\* returns (sendOk) or raises AttributeError:
\*   "ignored"     nothing is sent
\*   "raised"      user_profile.get on None raises AttributeError (line 73)
\*   "welcomed"    the send returned
\*   "send_failed" the send raised AttributeError, caught at line 80
HandleResult(m, cid, sendOk) ==
    IF m.subtype \in JoinSubtypes /\ m.user # None
    THEN IF m.user_profile.is_none
         THEN "raised"
         ELSE IF m.channel = cid
              THEN (IF sendOk THEN "welcomed" ELSE "send_failed")
              ELSE "ignored"
    ELSE "ignored"

\* the outcomes of the send call handle_message makes for an event: it
\* returns (TRUE) or raises AttributeError (FALSE); one value when no send is
\* made
SendOutcomes(m, cid) ==
    IF HandleResult(m, cid, TRUE) = "welcomed" THEN BOOLEAN ELSE {TRUE}

\* the display name handle_message logs
Username(m) == m.user_profile.name

\* rtm_send_message was called
SendCalled(r) == r \in {"welcomed", "send_failed"}

GreetingText == "hello party people"

(***************************************************************************)
(* The read loop of cli.                                                   *)
(***************************************************************************)
\* the for loop of line 127 moves on to the next event of the list
NextIndex_Stuck(i) == i

NextIndex(i) == i + 1

\* line 132
ResetRetryCount_Kept(rc) == rc

ResetRetryCount(rc) == 0

\* line 143
RetriesExhausted_Off(rc, R) == rc > R

RetriesExhausted_Early(rc, R) == rc + 1 >= R

RetriesExhausted(rc, R) == rc >= R

\* lines 119 and 149, in sixteenths of a second: backoff = 0.5 is 8, and
\* (backoff ** 2) / 4 seconds is ((b / 16) ** 2) / 4 * 16 = b * b / 64
Backoff == 8

BackoffDelay_NoQuarter(b) == (b * b) \div 16

BackoffDelay(b) == (b * b) \div 64

\* line 153
BumpRetryCount_Reset(rc) == 0

BumpRetryCount_Skip(rc) == rc

BumpRetryCount(rc) == rc + 1

NoSends == [i \in 1..MaxBatch |-> 0]

(***************************************************************************)
(* Initial state: the process has parsed its options and is about to call  *)
(* sc.rtm_connect().                                                       *)
(***************************************************************************)
Init ==
    /\ mode \in {"listen", "oneshot"}
    /\ channel \in ChannelNames
    /\ retries \in 0..MaxRetries
    /\ announce \in BOOLEAN
    /\ oneshot_message \in {"", "hi"}
    /\ mode = "listen" => oneshot_message = ""
    /\ mode = "oneshot" => (announce = FALSE /\ retries = 0)
    /\ pc = "connect"
    /\ exit_msg = ""
    /\ connected = FALSE
    /\ channel_id = None
    /\ retry_count = 0
    /\ batchLen = 0
    /\ idx = 0
    /\ message = NoMessage
    /\ result = None
    /\ loggerLevel = "NOTSET"
    /\ startupSends = 0
    /\ startupText = None
    /\ sendsAt = NoSends
    /\ passSendFailed = FALSE
    /\ rcAtLoss = 0
    /\ failedSinceLoss = 0
    /\ okSinceLoss = 0
    /\ backoff = 0
    /\ backoffSleeps = 0
    /\ lastBackoff = 0
    /\ failedSincePass = 0
    /\ okSincePass = 0
    /\ channels_list = NoListing
    /\ groups_list = NoListing

(***************************************************************************)
(* Initial connect and channel resolution (both programs).                 *)
(***************************************************************************)
\* sc.rtm_connect() returns true
ConnectOk ==
    /\ pc = "connect"
    /\ connected' = TRUE
    /\ pc' = "resolve"
    /\ UNCHANGED <<config, exit_msg, channel_id, retry_count, passVars,
                   loggerLevel, startupSends, startupText, lossVars,
                   backoffVars, budgetVars, listVars>>

ConnectFail_FallsThrough ==
    /\ pc = "connect"
    /\ pc' = "resolve"
    /\ UNCHANGED <<config, exit_msg, connected, channel_id, retry_count,
                   passVars, loggerLevel, startupSends, startupText, lossVars,
                   backoffVars, budgetVars, listVars>>

\* sc.rtm_connect() returns false: sys.exit("Couldn't connect to Slack")
ConnectFail ==
    /\ pc = "connect"
    /\ pc' = "fatal"
    /\ exit_msg' = "Couldn't connect to Slack"
    /\ UNCHANGED <<config, connected, channel_id, retry_count, passVars,
                   loggerLevel, startupSends, startupText, lossVars,
                   backoffVars, budgetVars, listVars>>

\* channel_id = find_channel_id(channel, sc), on any two api_call answers;
\* the listening program then sets retry_count = 0 (line 118), the value it
\* has in the model from the start
FindChannel ==
    /\ pc = "resolve"
    /\ \E cl \in Listings, gl \in Listings :
         LET r == FindChannelId(channel, cl, gl)
         IN  /\ channel_id' = r.id
             /\ pc' = AfterResolve(r.outcome)
             /\ exit_msg' = ResolveExitMsg(r.outcome)
             /\ backoff' = IF mode = "listen" /\ r.outcome = "return"
                           THEN Backoff ELSE backoff
    /\ retry_count' = 0
    /\ UNCHANGED <<config, connected, passVars, loggerLevel, startupSends,
                   startupText, lossVars,
                   backoffSleeps, lastBackoff, budgetVars, listVars>>

(***************************************************************************)
(* The one-shot program, sendMessage.py lines 94-95.                       *)
(***************************************************************************)
\* if message: sc.rtm_send_message(channel, message), which returns
OneShotSend ==
    /\ pc = "send_once"
    /\ oneshot_message # ""
    /\ startupSends' = startupSends + 1
    /\ startupText' = oneshot_message
    /\ pc' = "done"
    /\ UNCHANGED <<config, exit_msg, connected, channel_id, retry_count,
                   passVars, loggerLevel, lossVars,
                   backoffVars, budgetVars, listVars>>

\* the send raises AttributeError, which nothing catches
OneShotSendRaise ==
    /\ pc = "send_once"
    /\ oneshot_message # ""
    /\ startupSends' = startupSends + 1
    /\ startupText' = oneshot_message
    /\ pc' = "crashed"
    /\ exit_msg' = "AttributeError"
    /\ UNCHANGED <<config, connected, channel_id, retry_count,
                   passVars, loggerLevel, lossVars,
                   backoffVars, budgetVars, listVars>>

\* no --message: nothing is sent
OneShotNoMessage ==
    /\ pc = "send_once"
    /\ oneshot_message = ""
    /\ pc' = "done"
    /\ UNCHANGED <<config, exit_msg, connected, channel_id, retry_count,
                   passVars, loggerLevel, startupSends, startupText, lossVars,
                   backoffVars, budgetVars, listVars>>

(***************************************************************************)
(* The listening program, __main__.py lines 121-153.                       *)
(***************************************************************************)
\* if announce: sc.rtm_send_message(channel, greeting), which returns
AnnounceSend ==
    /\ pc = "announce"
    /\ announce
    /\ startupSends' = startupSends + 1
    /\ startupText' = GreetingText
    /\ pc' = "read"
    /\ UNCHANGED <<config, exit_msg, connected, channel_id, retry_count,
                   passVars, loggerLevel, lossVars,
                   backoffVars, budgetVars, listVars>>

\* the greeting send raises AttributeError, which nothing catches
AnnounceSendRaise ==
    /\ pc = "announce"
    /\ announce
    /\ startupSends' = startupSends + 1
    /\ startupText' = GreetingText
    /\ pc' = "crashed"
    /\ exit_msg' = "AttributeError"
    /\ UNCHANGED <<config, connected, channel_id, retry_count,
                   passVars, loggerLevel, lossVars,
                   backoffVars, budgetVars, listVars>>

NoAnnounce_Sends ==
    /\ pc = "announce"
    /\ ~announce
    /\ startupSends' = startupSends + 1
    /\ startupText' = GreetingText
    /\ pc' = "read"
    /\ UNCHANGED <<config, exit_msg, connected, channel_id, retry_count,
                   passVars, loggerLevel, lossVars, backoffVars, budgetVars,
                   listVars>>

\* announce is not set: nothing is sent
NoAnnounce ==
    /\ pc = "announce"
    /\ ~announce
    /\ pc' = "read"
    /\ UNCHANGED <<config, exit_msg, connected, channel_id, retry_count,
                   passVars, loggerLevel, startupSends, startupText, lossVars,
                   backoffVars, budgetVars, listVars>>

\* sc.rtm_read() returns a list of n events (line 127); only a live session
\* delivers events
ReadBatch ==
    /\ pc = "read"
    /\ connected
    /\ \E n \in 0..MaxBatch : batchLen' = n
    /\ idx' = 0
    /\ message' = NoMessage
    /\ result' = None
    /\ sendsAt' = NoSends
    /\ passSendFailed' = FALSE
    /\ pc' = "handle"
    /\ UNCHANGED <<config, exit_msg, connected, channel_id, retry_count,
                   loggerLevel, startupSends, startupText, lossVars,
                   backoffVars, budgetVars, listVars>>

ReadClosed_Swallowed ==
    /\ pc = "read"
    /\ connected' = FALSE
    /\ pc' = "read"
    /\ UNCHANGED <<config, exit_msg, channel_id, retry_count, passVars,
                   loggerLevel, startupSends, startupText, lossVars,
                   backoffVars, budgetVars, listVars>>

\* sc.rtm_read() raises WebSocketConnectionClosedException (line 139): a live
\* session is found lost, or the session was not re-established
ReadClosed ==
    /\ pc = "read"
    /\ connected' = FALSE
    /\ IF connected
       THEN /\ rcAtLoss' = retry_count
            /\ failedSinceLoss' = 0
            /\ okSinceLoss' = 0
            /\ backoffSleeps' = 0
            /\ lastBackoff' = 0
       ELSE UNCHANGED <<lossVars, backoffSleeps, lastBackoff>>
    /\ pc' = "reconnect"
    /\ UNCHANGED <<config, exit_msg, channel_id, retry_count, passVars,
                   loggerLevel, startupSends, startupText, backoff,
                   budgetVars, listVars>>

\* the for loop binds the next event and calls handle_message on it
HandleMessage ==
    /\ pc = "handle"
    /\ idx < batchLen
    /\ \E e \in Events :
       \E sendOk \in SendOutcomes(e, channel_id) :
         LET r == HandleResult(e, channel_id, sendOk)
             at == idx + 1
         IN  /\ message' = e
             /\ result' = r
             /\ idx' = NextIndex(idx)
             /\ sendsAt' = IF SendCalled(r)
                           THEN [sendsAt EXCEPT ![at] = @ + 1]
                           ELSE sendsAt
             /\ passSendFailed' = (passSendFailed \/ r = "send_failed")
             /\ loggerLevel' = IF r = "send_failed" THEN "ERROR" ELSE loggerLevel
             /\ pc' = IF r = "raised" THEN "crashed" ELSE "handle"
             /\ exit_msg' = IF r = "raised" THEN "AttributeError" ELSE exit_msg
    /\ UNCHANGED <<config, connected, channel_id, retry_count, batchLen,
                   startupSends, startupText, lossVars,
                   backoffVars, budgetVars, listVars>>

\* the for loop is exhausted: retry_count = 0 (line 132)
EndPass ==
    /\ pc = "handle"
    /\ idx >= batchLen
    /\ retry_count' = ResetRetryCount(retry_count)
    /\ failedSincePass' = 0
    /\ okSincePass' = 0
    /\ pc' = "sleep"
    /\ UNCHANGED <<config, exit_msg, connected, channel_id, passVars,
                   loggerLevel, startupSends, startupText, lossVars,
                   backoffVars, listVars>>

\* time.sleep(0.5) (line 134), then the next iteration of while True
Sleep ==
    /\ pc = "sleep"
    /\ pc' = "read"
    /\ batchLen' = 0
    /\ idx' = 0
    /\ message' = NoMessage
    /\ result' = None
    /\ sendsAt' = NoSends
    /\ passSendFailed' = FALSE
    /\ rcAtLoss' = 0
    /\ failedSinceLoss' = 0
    /\ okSinceLoss' = 0
    /\ backoffSleeps' = 0
    /\ lastBackoff' = 0
    /\ UNCHANGED <<config, exit_msg, connected, channel_id, retry_count,
                   loggerLevel, startupSends, startupText, backoff,
                   budgetVars, listVars>>

ReconnectOk_Reresolve ==
    /\ pc = "reconnect"
    /\ retry_count < MaxCount
    /\ connected' = TRUE
    /\ okSinceLoss' = okSinceLoss + 1
    /\ okSincePass' = okSincePass + 1
    /\ retry_count' = BumpRetryCount(retry_count)
    /\ pc' = "resolve"
    /\ UNCHANGED <<config, exit_msg, channel_id, passVars, loggerLevel,
                   startupSends, startupText, rcAtLoss, failedSinceLoss,
                   backoffVars, failedSincePass, listVars>>

\* the except clause, sc.rtm_connect() returns true: retry_count += 1
ReconnectOk ==
    /\ pc = "reconnect"
    /\ retry_count < MaxCount
    /\ connected' = TRUE
    /\ okSinceLoss' = okSinceLoss + 1
    /\ okSincePass' = okSincePass + 1
    /\ retry_count' = BumpRetryCount(retry_count)
    /\ pc' = "read"
    /\ UNCHANGED <<config, exit_msg, channel_id, passVars, loggerLevel,
                   startupSends, startupText, rcAtLoss, failedSinceLoss,
                   backoffVars, failedSincePass, listVars>>

\* sc.rtm_connect() returns false below the ceiling: sleep, retry_count += 1
ReconnectFailRetry ==
    /\ pc = "reconnect"
    /\ ~RetriesExhausted(retry_count, retries)
    /\ failedSinceLoss' = failedSinceLoss + 1
    /\ failedSincePass' = failedSincePass + 1
    /\ backoffSleeps' = backoffSleeps + 1
    /\ lastBackoff' = BackoffDelay(backoff)
    /\ retry_count' = BumpRetryCount(retry_count)
    /\ pc' = "read"
    /\ UNCHANGED <<config, exit_msg, connected, channel_id, passVars,
                   loggerLevel, startupSends, startupText, rcAtLoss, okSinceLoss,
                   backoff, okSincePass, listVars>>

\* sc.rtm_connect() returns false at the ceiling: sys.exit (lines 143-148)
ReconnectFailFatal ==
    /\ pc = "reconnect"
    /\ RetriesExhausted(retry_count, retries)
    /\ failedSinceLoss' = failedSinceLoss + 1
    /\ failedSincePass' = failedSincePass + 1
    /\ pc' = "fatal"
    /\ exit_msg' = "Too many failed reconnect attempts, shutting down"
    /\ UNCHANGED <<config, connected, channel_id, retry_count, passVars,
                   loggerLevel, startupSends, startupText, rcAtLoss, okSinceLoss,
                   backoffVars, okSincePass, listVars>>

Next ==
    \/ ConnectOk
    \/ ConnectFail
    \/ FindChannel
    \/ OneShotSend
    \/ OneShotSendRaise
    \/ OneShotNoMessage
    \/ AnnounceSend
    \/ AnnounceSendRaise
    \/ NoAnnounce
    \/ ReadBatch
    \/ ReadClosed
    \/ HandleMessage
    \/ EndPass
    \/ Sleep
    \/ ReconnectOk
    \/ ReconnectFailRetry
    \/ ReconnectFailFatal

Spec == Init /\ [][Next]_vars

(***************************************************************************)
(* The resolver on its own: find_channel_id applied to every channel name  *)
(* and every pair of api_call answers, which stay in channels_list and     *)
(* groups_list next to the outcome.                                        *)
(***************************************************************************)
InitResolve ==
    /\ mode = "listen"
    /\ channel \in ChannelNames
    /\ retries = 0
    /\ announce = FALSE
    /\ oneshot_message = ""
    /\ pc = "resolve"
    /\ exit_msg = ""
    /\ connected = TRUE
    /\ channel_id = None
    /\ retry_count = 0
    /\ batchLen = 0
    /\ idx = 0
    /\ message = NoMessage
    /\ result = None
    /\ loggerLevel = "NOTSET"
    /\ startupSends = 0
    /\ startupText = None
    /\ sendsAt = NoSends
    /\ passSendFailed = FALSE
    /\ rcAtLoss = 0
    /\ failedSinceLoss = 0
    /\ okSinceLoss = 0
    /\ backoff = 0
    /\ backoffSleeps = 0
    /\ lastBackoff = 0
    /\ failedSincePass = 0
    /\ okSincePass = 0
    /\ channels_list \in Listings
    /\ groups_list \in Listings

\* find_channel_id(channel, sc) with the answers channels_list, groups_list
ResolveCall ==
    /\ pc = "resolve"
    /\ LET r == FindChannelId(channel, channels_list, groups_list)
       IN  /\ channel_id' = r.id
           /\ pc' = AfterResolve(r.outcome)
           /\ exit_msg' = ResolveExitMsg(r.outcome)
    /\ UNCHANGED <<config, connected, retry_count, passVars, loggerLevel,
                   startupSends, startupText, lossVars,
                   backoffVars, budgetVars, listVars>>

NextResolve == ResolveCall

SpecResolve == InitResolve /\ [][NextResolve]_vars

(***************************************************************************)
(* Properties.                                                             *)
(***************************************************************************)
RetryFatal ==
    pc = "fatal" /\ exit_msg = "Too many failed reconnect attempts, shutting down"

\* reconnect attempts made since the loss being recovered from
AttemptsSinceLoss == failedSinceLoss + okSinceLoss

\* C1 (retry ceiling): after one connection loss at most retries + 1
\* reconnect attempts are made, and once the process is Fatal nothing happens
\* any more: no reconnect attempt, no read, no send, no change of state.
C1_RetryCeiling ==
    /\ [](AttemptsSinceLoss <= retries + 1)
    /\ [][pc = "fatal" => UNCHANGED vars]_vars

C1_Witness ==
    /\ RetryFatal
    /\ retries = 1
    /\ AttemptsSinceLoss = retries + 1

\* C2 (retry-count reset): at the end of every read pass that completed
\* (the process is at the sleep of line 134), retry_count is 0.
C2_RetryCountReset ==
    pc = "sleep" => retry_count = 0

\* an empty pass right after a reconnect, which had left retry_count at 3
C2_Witness ==
    /\ pc = "sleep"
    /\ batchLen = 0
    /\ okSinceLoss = 1
    /\ rcAtLoss + failedSinceLoss + 1 = 3
    /\ retry_count = 0

\* a session re-established by a reconnect, before the next pass has ended
Reconnected == okSinceLoss = 1 /\ pc # "sleep"

\* C3 as stated: after a loss (detected at retry_count 0), k failed attempts
\* and one successful attempt, retry_count is k until the next full pass.
C3_Original ==
    (Reconnected /\ rcAtLoss = 0) => retry_count = failedSinceLoss

\* C3 amended: every reconnect attempt increments retry_count, the successful
\* one too: after k failed attempts and the successful one it is k + 1 above
\* its value at the loss, and stays so until the next full pass ends.
C3_ReconnectCounts ==
    Reconnected => retry_count = rcAtLoss + failedSinceLoss + 1

\* two failed attempts, then a successful one, and a batch being handled
C3_Witness ==
    /\ Reconnected
    /\ rcAtLoss = 0
    /\ failedSinceLoss = 2
    /\ retry_count = 3
    /\ pc = "handle"
    /\ idx = 1

\* the loss was detected at retry_count 0 and no attempt since has succeeded
AlwaysFailing == rcAtLoss = 0 /\ okSinceLoss = 0

\* C4 as stated: when every reconnect attempt fails the process exits after
\* exactly retries + 1 failed attempts, with retry_count at retries + 1.
C4_Original ==
    (RetryFatal /\ AlwaysFailing)
        => (failedSinceLoss = retries + 1 /\ retry_count = retries + 1)

\* C4 amended: the process exits after exactly retries + 1 failed attempts,
\* not earlier and not later, and retry_count is retries at the exit (the
\* test retry_count >= retries comes before the increment).
C4_ExitAtCeiling ==
    /\ (RetryFatal /\ AlwaysFailing)
          => (failedSinceLoss = retries + 1 /\ retry_count = retries)
    /\ (AlwaysFailing /\ pc \in {"read", "reconnect"})
          => (failedSinceLoss <= retries /\ retry_count = failedSinceLoss)

C4_Witness ==
    /\ RetryFatal
    /\ AlwaysFailing
    /\ retries = 2
    /\ failedSinceLoss = 3
    /\ retry_count = 2

\* handle_message has been called on message
Handled == result # None

IsJoin(m) == m.subtype \in JoinSubtypes /\ m.user # None

\* C5: a join event without user_profile, or with a user_profile without a
\* name, is handled without an exception: the process does not end, and the
\* event is welcomed (the send is called) when its channel is the target.
C5_Original ==
    (Handled /\ IsJoin(message)
       /\ (message.user_profile.is_none \/ Username(message) = None))
        => /\ result # "raised"
           /\ pc # "crashed"
           /\ (message.channel = channel_id => SendCalled(result))

\* C6: an event of another channel, or of a subtype outside the join set, or
\* without a user, is ignored whatever its other fields: nothing is sent for
\* it and the process does not fail.
C6_Original ==
    (Handled /\ (message.channel # channel_id
                   \/ message.subtype \notin JoinSubtypes
                   \/ message.user = None))
        => /\ result = "ignored"
           /\ pc # "crashed"
           /\ sendsAt[idx] = 0

\* C7 (no double welcome): at most one send call is made for each event of a
\* batch, none for an event the loop has not reached yet, and the loop only
\* moves forward: an event is bound once, and a batch is only entered from a
\* read that returned it, never from a reconnect.
C7_NoDoubleWelcome ==
    /\ [](\A i \in 1..MaxBatch :
            /\ sendsAt[i] <= 1
            /\ (i > idx => sendsAt[i] = 0))
    /\ [][/\ (pc = "handle" /\ pc' = "handle" /\ idx' # idx) => idx' = idx + 1
          /\ (pc # "handle" /\ pc' = "handle")
                => (pc = "read" /\ idx' = 0 /\ sendsAt' = NoSends)]_vars

\* two events of one batch, each welcomed once
C7_Witness ==
    /\ pc = "handle"
    /\ idx = 2
    /\ sendsAt[1] = 1
    /\ sendsAt[2] = 1
    /\ result = "welcomed"

\* C8: once a send has failed in a pass, the pass goes on and completes: the
\* process is handling the rest of the batch or has ended the pass, it has
\* not ended and is not reconnecting.
C8_Original ==
    passSendFailed => pc \in {"handle", "sleep"}

\* C9 (resolver): with both listings available, find_channel_id returns the
\* id of the first entry of public ++ private whose name is the channel name,
\* ends with ChannelNotFoundError when there is an entry and none matches,
\* and with EnumerationError when both listings are empty.
C9_ResolverCorrect ==
    (pc # "resolve" /\ ~channels_list.is_none /\ ~groups_list.is_none)
        => LET all == channels_list.items \o groups_list.items
               hits == {i \in 1..Len(all) : all[i].name = channel}
           IN  /\ hits # {}
                     => /\ pc = "announce"
                        /\ \E i \in hits :
                             /\ \A j \in hits : i <= j
                             /\ channel_id = all[i].id
               /\ (hits = {} /\ all # <<>>)
                     => /\ pc = "fatal"
                        /\ exit_msg = ResolveExitMsg("ChannelNotFoundError")
               /\ all = <<>>
                     => /\ pc = "fatal"
                        /\ exit_msg = ResolveExitMsg("EnumerationError")

\* the name is in both listings under different ids: the public one wins
C9_Witness ==
    /\ pc = "announce"
    /\ channel = "general"
    /\ channels_list.items = <<[id |-> "C999", name |-> "random"],
                               [id |-> "C123", name |-> "general"]>>
    /\ groups_list.items = <<[id |-> "C999", name |-> "general"]>>
    /\ channel_id = "C123"

\* C10 (one-shot mode): with a message, a successful connect and a resolved
\* channel, the process ends having made exactly one send call, with the
\* message text, and its exit status is 0.
C10_Original ==
    (mode = "oneshot" /\ oneshot_message # "" /\ channel_id # None
       /\ pc \in {"done", "crashed"})
        => /\ startupSends = 1
           /\ startupText = oneshot_message
           /\ pc = "done"

\* the initial connect failed
ConnectFatal == pc = "fatal" /\ exit_msg = "Couldn't connect to Slack"

\* the process is in the while loop of lines 124-153
InLoop == pc \in {"read", "handle", "sleep", "reconnect"}

\* C11 (initial connect): the initial connect is attempted once (the process
\* leaves pc = "connect" with its outcome and never comes back); when it
\* fails the next state is Fatal, where nothing has been resolved, read, sent
\* or reconnected, retry_count and backoff are untouched, and nothing follows;
\* resolution and the sends before the loop only run on an established
\* session. In both programs.
C11_InitialConnect ==
    /\ [](ConnectFatal
            => /\ ~connected
               /\ channel_id = None
               /\ startupSends = 0
               /\ startupText = None
               /\ result = None
               /\ batchLen = 0
               /\ sendsAt = NoSends
               /\ failedSincePass = 0
               /\ okSincePass = 0
               /\ retry_count = 0
               /\ backoff = 0)
    /\ [](pc \in {"resolve", "announce", "send_once", "done"} => connected)
    /\ [][/\ pc = "connect" => pc' \in {"resolve", "fatal"}
          /\ (pc = "connect" /\ ~connected') => ConnectFatal'
          /\ pc # "connect" => pc' # "connect"
          /\ ConnectFatal => UNCHANGED vars]_vars

C11_Witness ==
    /\ ConnectFatal
    /\ mode = "oneshot"
    /\ oneshot_message = "hi"

\* C12 (announce on start): in the listening program, once the read loop is
\* entered exactly one send call has been made before it when announce is
\* set, with the greeting, and none when it is not set; a send before the
\* loop is only made with the channel id resolved.
C12_AnnounceOnce ==
    /\ (mode = "listen" /\ InLoop)
          => /\ startupSends = (IF announce THEN 1 ELSE 0)
             /\ startupText = (IF announce THEN GreetingText ELSE None)
    /\ (mode = "listen" /\ startupSends > 0)
          => (channel_id # None /\ startupSends = 1 /\ announce)

\* the greeting was sent and the first read has not been made yet
C12_Witness ==
    /\ mode = "listen"
    /\ announce
    /\ pc = "read"
    /\ startupSends = 1
    /\ startupText = GreetingText
    /\ channel_id = "C999"
    /\ retry_count = 0
    /\ okSincePass = 0
    /\ failedSincePass = 0

\* C13 as stated: the Supervisor calls rtm_read only on a connected session
\* (after a failed reconnect attempt the next call is a reconnect attempt).
C13_Original ==
    pc = "read" => connected

\* C13 amended: after a failed reconnect attempt below the ceiling
\* retry_count is incremented and the next call is rtm_read, on the session
\* that is still lost; that read raises connection-closed and leads to the
\* next reconnect attempt. No event is delivered or handled while the
\* session is not connected.
C13_ReadThenReconnect ==
    /\ []((InLoop /\ ~connected) => pc \in {"read", "reconnect"})
    /\ [][/\ (pc = "reconnect" /\ ~connected')
                => \/ (pc' = "read" /\ retry_count' = retry_count + 1
                         /\ retry_count < retries)
                   \/ (pc' = "fatal" /\ retry_count >= retries)
          /\ (pc = "read" /\ ~connected) => pc' = "reconnect"]_vars

\* a read on the lost session, after a failed reconnect attempt
C13_Witness ==
    /\ pc = "read"
    /\ ~connected
    /\ failedSinceLoss = 1
    /\ retry_count = 1
    /\ retries = 2

(***************************************************************************)
(* The process keeps running: it is one thread in which every call (a      *)
(* read, a connect, a send, a sleep) returns or raises, so an enabled step *)
(* is eventually taken. Which outcome the client gives stays free.         *)
(* The liveness claims are about the while loop of the listening program.  *)
(***************************************************************************)
\* the listening program, started without --announce on the default channel
InitLive ==
    /\ Init
    /\ mode = "listen"
    /\ channel = "general"
    /\ ~announce

NextLive ==
    \/ ConnectOk
    \/ ConnectFail
    \/ FindChannel
    \/ NoAnnounce
    \/ ReadBatch
    \/ ReadClosed
    \/ HandleMessage
    \/ EndPass
    \/ Sleep
    \/ ReconnectOk
    \/ ReconnectFailRetry
    \/ ReconnectFailFatal

SpecLive == InitLive /\ [][NextLive]_vars /\ WF_vars(NextLive)

\* the session is lost and the process is in its loop
Lost == InLoop /\ ~connected

\* C14 (no infinite retry loop): whenever the session is lost, eventually a
\* reconnect attempt succeeds or the process is Fatal by retry exhaustion: if
\* no attempt succeeds any more, it ends Fatal; it never stays lost forever.
C14_NoInfiniteRetry ==
    Lost ~> (okSinceLoss >= 1 \/ RetryFatal)

\* reads raise from the start and no attempt ever succeeds: Fatal
C14_Witness ==
    /\ RetryFatal
    /\ okSincePass = 0
    /\ failedSincePass = retries + 1
    /\ retries = MaxRetries
    /\ backoffSleeps = retries

\* C15 (one resolution): find_channel_id runs once, right after the initial
\* connect: the process enters pc = "resolve" only from the initial connect,
\* in the loop channel_id is a resolved id, and no step taken in the loop (a
\* read, a handled event, a failed or successful reconnect) changes it.
C15_ResolvedOnce ==
    /\ [](InLoop => channel_id \in ChannelIds)
    /\ [][/\ pc' = "resolve" => pc = "connect"
          /\ pc = "resolve" => pc' # "resolve"
          /\ InLoop => channel_id' = channel_id]_vars

\* events are filtered with the id resolved at the start, after a reconnect
C15_Witness ==
    /\ pc = "handle"
    /\ okSincePass = 1
    /\ failedSincePass = 1
    /\ channel_id = "C999"
    /\ result = "welcomed"
    /\ message.channel = "C999"

\* (backoff ** 2) / 4 seconds for backoff = 0.5, in sixteenths of a second
FixedDelay == (Backoff * Backoff) \div 64

C17_Original ==
    RetryFatal => failedSincePass >= retries + 1

\* C17 amended: every reconnect attempt since the last completed pass, failed
\* or successful, uses up the budget: the process exits by retry exhaustion
\* on a failed attempt that is at least the (retries + 1)-th attempt since
\* that pass, and never on an earlier one.
C17_BudgetCountsAllAttempts ==
    /\ RetryFatal
          => /\ failedSincePass + okSincePass >= retries + 1
             /\ failedSincePass >= 1
             /\ retry_count = failedSincePass + okSincePass - 1
    /\ (InLoop /\ pc # "sleep")
          => retry_count = failedSincePass + okSincePass

\* a flapping connection: one successful reconnect, then one failed attempt
\* ends the process with retries = 1
C17_Witness ==
    /\ RetryFatal
    /\ retries = 1
    /\ okSincePass = 1
    /\ failedSincePass = 1

\* C18 as stated: for every combination of the two listings (unavailable,
\* empty or non-empty) resolution ends with a returned id, EnumerationError
\* or ChannelNotFoundError and with no other failure; when exactly one
\* listing is unavailable and the other is not empty, the search runs over
\* the available one.
C18_Original ==
    pc # "resolve"
        => /\ \/ pc = "announce" /\ channel_id \in ChannelIds
              \/ pc = "fatal" /\ exit_msg = ResolveExitMsg("EnumerationError")
              \/ pc = "fatal" /\ exit_msg = ResolveExitMsg("ChannelNotFoundError")
           /\ (channels_list.is_none /\ ~Falsy(groups_list))
                 => (pc = "announce"
                       <=> \E i \in 1..Len(groups_list.items) :
                             groups_list.items[i].name = channel)
           /\ (groups_list.is_none /\ ~Falsy(channels_list))
                 => (pc = "announce"
                       <=> \E i \in 1..Len(channels_list.items) :
                             channels_list.items[i].name = channel)

\* C19 as stated: a welcome whose send call fails on a stale session leaves
\* the logger's level as it was, so the info records of later welcomes and
\* reconnects are still emitted.
C19_Original ==
    (Handled /\ passSendFailed) => loggerLevel = "NOTSET"

=============================================================================
